---- MODULE Spec2Model ----
(***************************************************************************)
(* Model of the Groq chat template: the chat page (app/chat/page.tsx,      *)
(* driven by the useChat hook as the docs describe it), the POST handler   *)
(* of the chat route (app/api/chat/route.ts) and the mode catalog          *)
(* (lib/groqModels.ts).                                                    *)
(*                                                                         *)
(* Two specifications share the route and the stream actions:              *)
(*   Spec     the chat page is the only client of the route;               *)
(*   SpecApi  arbitrary HTTP clients POST arbitrary bodies to the route.   *)
(***************************************************************************)
EXTENDS Integers, Sequences, FiniteSets, TLC

VARIABLES
    MODELS,         \* lib/groqModels.ts: the catalog object (own keys -> model id)
    selectedModel,  \* page.tsx: useState<ModelKey>('default')
    input,          \* useChat: value of the input field (sequence of characters)
    isLoading,      \* useChat: a request is in progress
    messages,       \* useChat: the conversation, a sequence of [id, role, content]
    reqs,           \* every POST sent to /api/chat, in sending order
    lastAttempt,    \* the submit attempt of the latest step (none: no attempt)
    selects         \* number of times the user changed the selected model

vars == <<MODELS, selectedModel, input, isLoading, messages, reqs, lastAttempt, selects>>

----------------------------------------------------------------------------
(* Bounds *)

MaxSubmits == 2     \* accepted form submissions
MaxSelects == 1     \* changes of the selected model
MaxChunks == 2      \* text chunks delivered, over all streams
MaxPosts == 1       \* POSTs sent by clients other than the page

----------------------------------------------------------------------------
(* JavaScript values of a parsed JSON body *)

Undefined == [t |-> "undefined", v |-> <<>>]
Null == [t |-> "null", v |-> <<>>]
Str(s) == [t |-> "string", v |-> s]
Num(n) == [t |-> "number", v |-> n]
Obj == [t |-> "object", v |-> <<>>]
Arr(s) == [t |-> "array", v |-> s]
Fun(name) == [t |-> "function", v |-> name]

\* JavaScript truthiness, as the `!x` tests of the route use it
Truthy(x) ==
    CASE x.t = "undefined" -> FALSE
      [] x.t = "null" -> FALSE
      [] x.t = "string" -> x.v # ""
      [] x.t = "number" -> x.v # 0
      [] OTHER -> TRUE

\* Array.isArray
IsArray(x) == x.t = "array"

----------------------------------------------------------------------------
(* lib/groqModels.ts *)

\* ModelsObject with the identifiers of fast and default exchanged
ModelsObject_Swapped ==
    [fast |-> "llama-3.3-70b-versatile",
     default |-> "llama-3.1-8b-instant",
     reasoning |-> "openai/gpt-oss-120b",
     browserLite |-> "openai/gpt-oss-20b",
     safety |-> "meta-llama/llama-guard-4-12b",
     compound |-> "groq/compound"]

\* ModelsObject with an empty identifier for compound
ModelsObject_EmptyId ==
    [fast |-> "llama-3.1-8b-instant",
     default |-> "llama-3.3-70b-versatile",
     reasoning |-> "openai/gpt-oss-120b",
     browserLite |-> "openai/gpt-oss-20b",
     safety |-> "meta-llama/llama-guard-4-12b",
     compound |-> ""]

ModelsObject ==
    [fast |-> "llama-3.1-8b-instant",
     default |-> "llama-3.3-70b-versatile",
     reasoning |-> "openai/gpt-oss-120b",
     browserLite |-> "openai/gpt-oss-20b",
     safety |-> "meta-llama/llama-guard-4-12b",
     compound |-> "groq/compound"]

\* Members every object literal inherits from Object.prototype (two of them)
ObjectPrototypeKeys == {"constructor", "toString"}

\* The property read obj[key] of JavaScript: own property first, then the
\* prototype chain, undefined when neither has the key.
GetProperty(obj, key) ==
    IF key \in DOMAIN obj THEN Str(obj[key])
    ELSE IF key \in ObjectPrototypeKeys THEN Fun(key)
    ELSE Undefined

\* ObjectKeys listing the inherited members too
ObjectKeys_Inherited(obj) == DOMAIN obj \cup ObjectPrototypeKeys

\* Object.keys(MODELS)
ObjectKeys(obj) == DOMAIN obj

\* groqProvider(modelId): a language model bound to the given identifier
groqProvider(modelId) == [provider |-> "groq", modelId |-> modelId]

----------------------------------------------------------------------------
(* app/api/chat/route.ts *)

\* Errors streamText can throw (the provider answers 401)
StreamErrors == {"auth401"}

\* Request bodies: text that is not JSON, the JSON value null, or a JSON
\* object whose members messages and mode are JavaScript values.
InvalidJsonBody == [kind |-> "invalid", messages |-> Undefined, mode |-> Undefined]
NullBody == [kind |-> "null", messages |-> Undefined, mode |-> Undefined]
ObjectBody(m, k) == [kind |-> "object", messages |-> m, mode |-> k]

\* The key a value is converted to when it indexes an object
PropertyKey(x) == IF x.t = "string" THEN x.v ELSE x.t

Response(status, text, calls, thrown) ==
    [status |-> status, text |-> text, calls |-> calls, thrown |-> thrown]

\* MessagesInvalid without the Array.isArray test
MessagesInvalid_NoArrayCheck(m) == ~Truthy(m)

\* MessagesInvalid refusing an empty array too
MessagesInvalid_RejectsEmpty(m) == ~Truthy(m) \/ ~IsArray(m) \/ m.v = <<>>

\* line 11: the test that answers "Messages array is required"
MessagesInvalid(m) == ~Truthy(m) \/ ~IsArray(m)

\* line 15: the test that answers "Valid mode is required"
ModeInvalid(catalog, mode) ==
    ~Truthy(mode) \/ ~Truthy(GetProperty(catalog, PropertyKey(mode)))

\* CatchBlock answering with the text of the error it caught
CatchBlock_LeaksError(error, calls) ==
    Response(500, error, calls, error)

\* lines 27-30: the catch block; the caught error goes to the log only
CatchBlock(error, calls) ==
    Response(500, "Internal server error", calls, error)

\* StreamTextCall passing the mode key itself as the model identifier
StreamTextCall_KeyAsModel(catalog, body) ==
    [model |-> groqProvider(body.mode), messages |-> body.messages]

\* lines 19-24: the argument streamText is invoked with
StreamTextCall(catalog, body) ==
    LET modelId == GetProperty(catalog, PropertyKey(body.mode))
    IN  [model |-> groqProvider(modelId), messages |-> body.messages]

\* POST testing mode before messages
POST_ModeFirst(catalog, body, streamOut, respOut) ==
    IF body.kind = "invalid" THEN CatchBlock("SyntaxError", <<>>)
    ELSE IF body.kind = "null" THEN CatchBlock("TypeError", <<>>)
    ELSE IF ModeInvalid(catalog, body.mode) THEN
        Response(400, "Valid mode is required", <<>>, "none")
    ELSE IF MessagesInvalid(body.messages) THEN
        Response(400, "Messages array is required", <<>>, "none")
    ELSE
        LET call == StreamTextCall(catalog, body)
        IN  IF streamOut # "ok" THEN CatchBlock(streamOut, <<call>>)
            ELSE IF respOut # "ok" THEN CatchBlock("responseError", <<call>>)
            ELSE Response(200, "", <<call>>, "none")

\* POST answering 400 to a body it cannot parse or destructure
POST_BadBody400(catalog, body, streamOut, respOut) ==
    IF body.kind = "invalid" THEN Response(400, "Invalid JSON", <<>>, "none")
    ELSE IF body.kind = "null" THEN Response(400, "Invalid JSON", <<>>, "none")
    ELSE IF MessagesInvalid(body.messages) THEN
        Response(400, "Messages array is required", <<>>, "none")
    ELSE IF ModeInvalid(catalog, body.mode) THEN
        Response(400, "Valid mode is required", <<>>, "none")
    ELSE
        LET call == StreamTextCall(catalog, body)
        IN  IF streamOut # "ok" THEN CatchBlock(streamOut, <<call>>)
            ELSE IF respOut # "ok" THEN CatchBlock("responseError", <<call>>)
            ELSE Response(200, "", <<call>>, "none")

\* POST(req): the response of the handler for one request body.  streamOut is
\* what streamText does ("ok" or the error it throws), respOut what
\* toDataStreamResponse does ("ok" or "throw").  calls lists the invocations
\* of streamText, thrown the error the catch block caught.
POST(catalog, body, streamOut, respOut) ==
    IF body.kind = "invalid" THEN CatchBlock("SyntaxError", <<>>)
    ELSE IF body.kind = "null" THEN CatchBlock("TypeError", <<>>)
    ELSE IF MessagesInvalid(body.messages) THEN
        Response(400, "Messages array is required", <<>>, "none")
    ELSE IF ModeInvalid(catalog, body.mode) THEN
        Response(400, "Valid mode is required", <<>>, "none")
    ELSE
        LET call == StreamTextCall(catalog, body)
        IN  IF streamOut # "ok" THEN CatchBlock(streamOut, <<call>>)
            ELSE IF respOut # "ok" THEN CatchBlock("responseError", <<call>>)
            ELSE Response(200, "", <<call>>, "none")

----------------------------------------------------------------------------
(* Requests in flight.  srv is the server's side of a request: "waiting"   *)
(* (sent, not handled yet), "streaming" (the data-stream response was      *)
(* returned and is still open), "done" (the stream ended), "broken" (the   *)
(* stream failed), "closed" (a plain response was returned, or the request *)
(* never arrived).  turn is the state of the assistant turn the chat page  *)
(* is waiting for ("none" for other clients): "pending" from the sending   *)
(* of the request, "streaming" from the arrival of a 200 response,         *)
(* "complete" or "errored" once isLoading dropped.  msg is the position of *)
(* the assistant message in messages, 0 before the first chunk created it. *)

NoResponse == Response(0, "", <<>>, "none")

NewRequest(from, body) ==
    [from |-> from, body |-> body, srv |-> "waiting", resp |-> NoResponse,
     chunks |-> <<>>, turn |-> IF from = "page" THEN "pending" ELSE "none",
     msg |-> 0]

PageRequests == {i \in DOMAIN reqs : reqs[i].from = "page"}

----------------------------------------------------------------------------
(* app/chat/page.tsx and the useChat hook *)

\* Texts the user types: empty, only whitespace, text with whitespace
\* around it
Inputs == {<<>>, <<" ">>, <<" ", "a">>}

RECURSIVE TrimStart(_)
TrimStart(s) ==
    IF s = <<>> THEN <<>>
    ELSE IF Head(s) = " " THEN TrimStart(Tail(s)) ELSE s

RECURSIVE TrimEnd(_)
TrimEnd(s) ==
    IF s = <<>> THEN <<>>
    ELSE IF s[Len(s)] = " " THEN TrimEnd(SubSeq(s, 1, Len(s) - 1)) ELSE s

\* String.prototype.trim
Trim(s) == TrimEnd(TrimStart(s))

\* SendDisabled without the test of the input text
SendDisabled_NoTrim == isLoading

\* SendDisabled without the test of isLoading
SendDisabled_NoLoading == Trim(input) = <<>>

\* line 94: disabled={isLoading || !input.trim()} of the Send button
SendDisabled == isLoading \/ Trim(input) = <<>>

\* line 90: disabled={isLoading} of the input field
InputDisabled == isLoading

\* SelectDisabled never disabling the selector
SelectDisabled_Never == FALSE

\* line 26: disabled={isLoading} of the model selector
SelectDisabled == isLoading

\* The {role, content} form in which a message travels in the request body
Wire(m) == [role |-> m.role, content |-> m.content]

WireMessages(ms) == Arr([i \in DOMAIN ms |-> Wire(ms[i])])

\* What a submit attempt did: kind is "accepted" (handleSubmit ran) or
\* "blocked" (the button was disabled), blank and loading are the state it
\* found, raised the error it reported to its caller (the page reports none).
Attempt(kind) ==
    [kind |-> kind, blank |-> Trim(input) = <<>>, loading |-> isLoading,
     raised |-> "none"]

NoAttempt == [kind |-> "none", blank |-> TRUE, loading |-> FALSE, raised |-> "none"]

\* line 87: onChange={handleInputChange}
handleInputChange(s) ==
    /\ ~InputDisabled
    /\ input' = s
    /\ lastAttempt' = NoAttempt
    /\ UNCHANGED <<MODELS, selectedModel, isLoading, messages, reqs, selects>>

\* line 24: onChange={(e) => setSelectedModel(e.target.value as ModelKey)};
\* the options are Object.keys(MODELS) (lines 28-32)
setSelectedModel(key) ==
    /\ ~SelectDisabled
    /\ key \in ObjectKeys(MODELS)
    /\ selects < MaxSelects
    /\ selectedModel' = key
    /\ selects' = selects + 1
    /\ lastAttempt' = NoAttempt
    /\ UNCHANGED <<MODELS, input, isLoading, messages, reqs>>

\* handleSubmit posting the conversation as it was before the new user
\* message (a stale copy of messages)
handleSubmit_Stale ==
    /\ Cardinality(PageRequests) < MaxSubmits
    /\ messages' = Append(messages,
            [id |-> Len(messages) + 1, role |-> "user", content |-> input])
    /\ isLoading' = TRUE
    /\ reqs' = Append(reqs, NewRequest("page",
            ObjectBody(WireMessages(messages), Str(selectedModel))))
    /\ lastAttempt' = Attempt("accepted")
    /\ UNCHANGED <<MODELS, selectedModel, input, selects>>

\* useChat's handleSubmit: append the user message, raise isLoading, POST
\* the conversation with body.mode = selectedModel
handleSubmit ==
    /\ Cardinality(PageRequests) < MaxSubmits
    /\ messages' = Append(messages,
            [id |-> Len(messages) + 1, role |-> "user", content |-> input])
    /\ isLoading' = TRUE
    /\ reqs' = Append(reqs, NewRequest("page",
            ObjectBody(WireMessages(messages'), Str(selectedModel))))
    /\ lastAttempt' = Attempt("accepted")
    /\ UNCHANGED <<MODELS, selectedModel, input, selects>>

\* The user clicks Send or presses Enter: the form's submit event fires, and
\* handleSubmit runs, only when the Send button is enabled.  A blocked
\* attempt runs no code at all: nothing is thrown or returned to anyone.
SubmitForm ==
    IF SendDisabled
    THEN /\ lastAttempt' = Attempt("blocked")
         /\ UNCHANGED <<MODELS, selectedModel, input, isLoading, messages, reqs, selects>>
    ELSE handleSubmit

\* fetch resolves with the response head: a 200 opens the stream, any other
\* status ends the turn in error
onResponse(i) ==
    /\ i \in PageRequests
    /\ reqs[i].turn = "pending"
    /\ reqs[i].resp.status # 0
    /\ IF reqs[i].resp.status = 200
       THEN /\ reqs' = [reqs EXCEPT ![i].turn = "streaming"]
            /\ UNCHANGED isLoading
       ELSE /\ reqs' = [reqs EXCEPT ![i].turn = "errored"]
            /\ isLoading' = FALSE
    /\ lastAttempt' = NoAttempt
    /\ UNCHANGED <<MODELS, selectedModel, input, messages, selects>>

\* fetch rejects: the request never reached the route
FetchFail(i) ==
    /\ i \in PageRequests
    /\ reqs[i].turn = "pending"
    /\ reqs[i].srv = "waiting"
    /\ reqs' = [reqs EXCEPT ![i].turn = "errored", ![i].srv = "closed"]
    /\ isLoading' = FALSE
    /\ lastAttempt' = NoAttempt
    /\ UNCHANGED <<MODELS, selectedModel, input, messages, selects>>

----------------------------------------------------------------------------
(* Clients other than the chat page *)

UserMsg == [role |-> "user", content |-> <<"a">>]
AssistantMsg == [role |-> "assistant", content |-> <<"1">>]
SystemMsg == [role |-> "system", content |-> <<"a">>]
ToolMsg == [role |-> "tool", content |-> <<"a">>]

ClientMessages ==
    {Undefined, Null, Str(""), Str("hi"), Num(0), Obj}
    \cup {Arr(a) : a \in {<<>>, <<UserMsg>>, <<UserMsg, AssistantMsg>>,
                          <<AssistantMsg, UserMsg>>, <<SystemMsg, UserMsg>>,
                          <<ToolMsg>>}}

ClientModes ==
    {Undefined, Null, Str("")}
    \cup {Str(k) : k \in DOMAIN ModelsObject}
    \cup {Str("bogus"), Str("constructor"), Str("toString")}

ClientBodies ==
    {InvalidJsonBody, NullBody}
    \cup {ObjectBody(m, k) : m \in ClientMessages, k \in ClientModes}

ClientRequests == {i \in DOMAIN reqs : reqs[i].from = "client"}

ClientPost(body) ==
    /\ Cardinality(ClientRequests) < MaxPosts
    /\ reqs' = Append(reqs, NewRequest("client", body))
    /\ lastAttempt' = NoAttempt
    /\ UNCHANGED <<MODELS, selectedModel, input, isLoading, messages, selects>>

----------------------------------------------------------------------------
(* The route handles a request; the inference stream delivers *)

RoutePOST(i) ==
    /\ reqs[i].srv = "waiting"
    /\ \E streamOut \in {"ok"} \cup StreamErrors, respOut \in {"ok", "throw"} :
          LET r == POST(MODELS, reqs[i].body, streamOut, respOut)
          IN  reqs' = [reqs EXCEPT ![i].resp = r,
                         ![i].srv = IF r.status = 200 THEN "streaming" ELSE "closed"]
    /\ lastAttempt' = NoAttempt
    /\ UNCHANGED <<MODELS, selectedModel, input, isLoading, messages, selects>>

ChunksDelivered == LET RECURSIVE Sum(_)
                       Sum(n) == IF n = 0 THEN 0 ELSE Len(reqs[n].chunks) + Sum(n - 1)
                   IN  Sum(Len(reqs))

\* The text fragments the provider can emit next: fragments are pairwise
\* different, the k-th one delivered is named k
Chunks == {ToString(ChunksDelivered + 1)}

\* The stream of request i is open towards its client
StreamOpen(i) ==
    /\ reqs[i].srv = "streaming"
    /\ reqs[i].from = "page" => reqs[i].turn = "streaming"

\* ApplyChunk putting the new text in front of the text received so far
ApplyChunk_Prepend(ms, at, c) ==
    IF at = 0
    THEN Append(ms, [id |-> Len(ms) + 1, role |-> "assistant", content |-> <<c>>])
    ELSE [ms EXCEPT ![at].content = <<c>> \o @]

\* ApplyChunk creating a new assistant message for every chunk
ApplyChunk_NewMessage(ms, at, c) ==
    Append(ms, [id |-> Len(ms) + 1, role |-> "assistant", content |-> <<c>>])

\* ApplyChunk setting the content to the latest chunk alone
ApplyChunk_Replace(ms, at, c) ==
    IF at = 0
    THEN Append(ms, [id |-> Len(ms) + 1, role |-> "assistant", content |-> <<c>>])
    ELSE [ms EXCEPT ![at].content = <<c>>]

\* ApplyChunk growing the message before the assistant message
ApplyChunk_OffByOne(ms, at, c) ==
    IF at = 0
    THEN Append(ms, [id |-> Len(ms) + 1, role |-> "assistant", content |-> <<c>>])
    ELSE [ms EXCEPT ![at - 1].content = Append(@, c)]

\* useChat applies a text chunk: the first one creates the assistant
\* message, the later ones grow it
ApplyChunk(ms, at, c) ==
    IF at = 0
    THEN Append(ms, [id |-> Len(ms) + 1, role |-> "assistant", content |-> <<c>>])
    ELSE [ms EXCEPT ![at].content = Append(@, c)]

StreamChunk(i, c) ==
    /\ StreamOpen(i)
    /\ ChunksDelivered < MaxChunks
    /\ IF reqs[i].from = "page"
       THEN /\ messages' = ApplyChunk(messages, reqs[i].msg, c)
            /\ reqs' = [reqs EXCEPT ![i].chunks = Append(@, c),
                           ![i].msg = IF @ = 0 THEN Len(messages') ELSE @]
       ELSE /\ reqs' = [reqs EXCEPT ![i].chunks = Append(@, c)]
            /\ UNCHANGED messages
    /\ lastAttempt' = NoAttempt
    /\ UNCHANGED <<MODELS, selectedModel, input, isLoading, selects>>

\* StreamDone leaving isLoading raised
StreamDone_KeepsLoading(i) ==
    /\ StreamOpen(i)
    /\ reqs' = [reqs EXCEPT ![i].srv = "done",
                   ![i].turn = IF reqs[i].from = "page" THEN "complete" ELSE @]
    /\ input' = IF reqs[i].from = "page" THEN <<>> ELSE input
    /\ lastAttempt' = NoAttempt
    /\ UNCHANGED <<MODELS, selectedModel, isLoading, messages, selects>>

\* The stream ends: isLoading drops and the input is cleared
StreamDone(i) ==
    /\ StreamOpen(i)
    /\ IF reqs[i].from = "page"
       THEN /\ reqs' = [reqs EXCEPT ![i].srv = "done", ![i].turn = "complete"]
            /\ isLoading' = FALSE
            /\ input' = <<>>
       ELSE /\ reqs' = [reqs EXCEPT ![i].srv = "done"]
            /\ UNCHANGED <<isLoading, input>>
    /\ lastAttempt' = NoAttempt
    /\ UNCHANGED <<MODELS, selectedModel, messages, selects>>

\* StreamError putting the turn back to pending, as a retry would
StreamError_Retry(i) ==
    /\ StreamOpen(i)
    /\ reqs' = [reqs EXCEPT ![i].srv = "broken",
                   ![i].turn = IF reqs[i].from = "page" THEN "pending" ELSE @]
    /\ lastAttempt' = NoAttempt
    /\ UNCHANGED <<MODELS, selectedModel, input, isLoading, messages, selects>>

\* StreamError emptying the partial content of the turn
StreamError_ClearsContent(i) ==
    /\ StreamOpen(i)
    /\ reqs' = [reqs EXCEPT ![i].srv = "broken",
                   ![i].turn = IF reqs[i].from = "page" THEN "errored" ELSE @]
    /\ isLoading' = IF reqs[i].from = "page" THEN FALSE ELSE isLoading
    /\ messages' = IF reqs[i].msg # 0
                   THEN [messages EXCEPT ![reqs[i].msg].content = <<>>]
                   ELSE messages
    /\ lastAttempt' = NoAttempt
    /\ UNCHANGED <<MODELS, selectedModel, input, selects>>

\* StreamError removing the partial assistant message
StreamError_Rollback(i) ==
    /\ StreamOpen(i)
    /\ reqs' = [reqs EXCEPT ![i].srv = "broken",
                   ![i].turn = IF reqs[i].from = "page" THEN "errored" ELSE @]
    /\ isLoading' = IF reqs[i].from = "page" THEN FALSE ELSE isLoading
    /\ messages' = IF reqs[i].msg # 0
                   THEN SubSeq(messages, 1, reqs[i].msg - 1)
                   ELSE messages
    /\ lastAttempt' = NoAttempt
    /\ UNCHANGED <<MODELS, selectedModel, input, selects>>

\* StreamError handled by the catch block of the route, which replaces the
\* response by its 500 answer
StreamError_Caught(i) ==
    /\ StreamOpen(i)
    /\ reqs' = [reqs EXCEPT ![i].srv = "broken",
                   ![i].turn = IF reqs[i].from = "page" THEN "errored" ELSE @,
                   ![i].resp = CatchBlock("streamError", @.calls)]
    /\ isLoading' = IF reqs[i].from = "page" THEN FALSE ELSE isLoading
    /\ lastAttempt' = NoAttempt
    /\ UNCHANGED <<MODELS, selectedModel, input, messages, selects>>

\* The stream breaks after the response was returned
StreamError(i) ==
    /\ StreamOpen(i)
    /\ IF reqs[i].from = "page"
       THEN /\ reqs' = [reqs EXCEPT ![i].srv = "broken", ![i].turn = "errored"]
            /\ isLoading' = FALSE
       ELSE /\ reqs' = [reqs EXCEPT ![i].srv = "broken"]
            /\ UNCHANGED isLoading
    /\ lastAttempt' = NoAttempt
    /\ UNCHANGED <<MODELS, selectedModel, input, messages, selects>>

----------------------------------------------------------------------------
(* Specifications *)

Init ==
    /\ MODELS = ModelsObject
    /\ selectedModel = "default"
    /\ input = <<>>
    /\ isLoading = FALSE
    /\ messages = <<>>
    /\ reqs = <<>>
    /\ lastAttempt = NoAttempt
    /\ selects = 0

Next ==
    \/ \E s \in Inputs : handleInputChange(s)
    \/ \E k \in DOMAIN ModelsObject \cup ObjectPrototypeKeys : setSelectedModel(k)
    \/ SubmitForm
    \/ \E i \in DOMAIN reqs : onResponse(i)
    \/ \E i \in DOMAIN reqs : FetchFail(i)
    \/ \E i \in DOMAIN reqs : RoutePOST(i)
    \/ \E i \in DOMAIN reqs, c \in Chunks : StreamChunk(i, c)
    \/ \E i \in DOMAIN reqs : StreamDone(i)
    \/ \E i \in DOMAIN reqs : StreamError(i)

Spec == Init /\ [][Next]_vars

NextApi ==
    \/ \E b \in ClientBodies : ClientPost(b)
    \/ \E i \in DOMAIN reqs : RoutePOST(i)
    \/ \E i \in DOMAIN reqs, c \in Chunks : StreamChunk(i, c)
    \/ \E i \in DOMAIN reqs : StreamDone(i)
    \/ \E i \in DOMAIN reqs : StreamError(i)

SpecApi == Init /\ [][NextApi]_vars

\* The steps the code itself schedules: the edge runtime runs the handler
\* for a request that arrived, and the hook's fetch continuation runs once
\* the response head arrived.  What the network and the provider deliver
\* (chunks, end of stream, failures) is not in the code's hands.
SpecLive ==
    /\ Init /\ [][Next]_vars
    /\ WF_vars(\E i \in DOMAIN reqs : RoutePOST(i))
    /\ WF_vars(\E i \in DOMAIN reqs : onResponse(i))

----------------------------------------------------------------------------
(* Properties of the route *)

\* Request i has been answered by the route
Handled(i) == reqs[i].resp.status # 0

\* The body of request i is a JSON object whose messages member is an array
ArrayMessages(i) == reqs[i].body.kind = "object" /\ IsArray(reqs[i].body.messages)

SixKeys == {"fast", "default", "reasoning", "browserLite", "safety", "compound"}

\* The mode of request i is one of the six catalog keys
CatalogMode(i) == reqs[i].body.mode.t = "string" /\ reqs[i].body.mode.v \in SixKeys

\* The mode of request i is absent, empty, or a string that is no catalog key
NoCatalogMode(i) ==
    \/ reqs[i].body.mode.t = "undefined"
    \/ reqs[i].body.mode.t = "string" /\ reqs[i].body.mode.v \notin SixKeys

\* C1: every answered POST with an array messages and a mode that is absent,
\* empty or any string other than the six catalog keys ("constructor" and
\* "toString" included) got status 400 "Valid mode is required" and
\* streamText was never invoked for it.
C1_InvalidModeRejected ==
    \A i \in DOMAIN reqs :
        (Handled(i) /\ ArrayMessages(i) /\ NoCatalogMode(i)) =>
            /\ reqs[i].resp.status = 400
            /\ reqs[i].resp.text = "Valid mode is required"
            /\ reqs[i].resp.calls = <<>>

\* C2: every answered POST whose JSON body is an object with messages
\* missing, null or not an array got status 400 "Messages array is required"
\* and streamText was never invoked for it.
C2_MessagesRequired ==
    \A i \in DOMAIN reqs :
        (Handled(i) /\ reqs[i].body.kind = "object" /\ ~IsArray(reqs[i].body.messages)) =>
            /\ reqs[i].resp.status = 400
            /\ reqs[i].resp.text = "Messages array is required"
            /\ reqs[i].resp.calls = <<>>

\* C2 witness: a POST whose messages is a non-empty string, with a catalog
\* mode, has been answered
C2_Witness ==
    \E i \in DOMAIN reqs :
        /\ Handled(i)
        /\ reqs[i].body.kind = "object"
        /\ reqs[i].body.messages = Str("hi")
        /\ CatalogMode(i)

\* The one invocation of streamText a valid request must cause
ExpectedCall(i) ==
    [model |-> [provider |-> "groq",
                modelId |-> Str(ModelsObject[reqs[i].body.mode.v])],
     messages |-> reqs[i].body.messages]

\* C3 as stated: every answered POST with an array messages and a catalog
\* mode invoked streamText exactly once, with the model of MODELS[mode] and
\* the messages as received, and returned the data-stream response.
C3_AlwaysStreams ==
    \A i \in DOMAIN reqs :
        (Handled(i) /\ ArrayMessages(i) /\ CatalogMode(i)) =>
            /\ reqs[i].resp.calls = <<ExpectedCall(i)>>
            /\ reqs[i].resp.status = 200

\* C3 amended: every answered POST with an array messages and a catalog mode
\* invoked streamText exactly once, with the model of MODELS[mode] and the
\* messages as received; it returned the data-stream response unless
\* streamText or toDataStreamResponse threw, and status 500 if one did.
C3_StreamsUnlessThrown ==
    \A i \in DOMAIN reqs :
        (Handled(i) /\ ArrayMessages(i) /\ CatalogMode(i)) =>
            /\ reqs[i].resp.calls = <<ExpectedCall(i)>>
            /\ reqs[i].resp.thrown = "none" => reqs[i].resp.status = 200
            /\ reqs[i].resp.thrown # "none" => reqs[i].resp.status = 500

\* C3 witness: a POST with two messages and the mode reasoning got its
\* data-stream response
C3_Witness ==
    \E i \in DOMAIN reqs :
        /\ reqs[i].body.messages = Arr(<<AssistantMsg, UserMsg>>)
        /\ reqs[i].body.mode = Str("reasoning")
        /\ reqs[i].resp.status = 200
        /\ reqs[i].srv = "streaming"

\* C4: in every reachable state the catalog maps the six keys to the six
\* identifiers and has no other key (no operation changes it).
C4_CatalogFixed ==
    /\ DOMAIN MODELS = SixKeys
    /\ MODELS["fast"] = "llama-3.1-8b-instant"
    /\ MODELS["default"] = "llama-3.3-70b-versatile"
    /\ MODELS["reasoning"] = "openai/gpt-oss-120b"
    /\ MODELS["browserLite"] = "openai/gpt-oss-20b"
    /\ MODELS["safety"] = "meta-llama/llama-guard-4-12b"
    /\ MODELS["compound"] = "groq/compound"

\* C4 witness: the page changed the selected model, and a turn sent with it
\* was handled by the route and completed
C4_Witness ==
    /\ selects > 0
    /\ \E i \in PageRequests :
          /\ reqs[i].turn = "complete"
          /\ reqs[i].body.mode = Str(selectedModel)
          /\ selectedModel # "default"

\* C5: whenever parsing the body, streamText or toDataStreamResponse threw,
\* the handler answered status 500 with the constant text "Internal server
\* error", whatever the error was.
C5_ConstantError ==
    \A i \in DOMAIN reqs :
        reqs[i].resp.thrown # "none" =>
            /\ reqs[i].resp.status = 500
            /\ reqs[i].resp.text = "Internal server error"

\* C5 witness: streamText threw for a valid request
C5_Witness ==
    \E i \in DOMAIN reqs :
        /\ reqs[i].resp.thrown = "auth401"
        /\ reqs[i].resp.calls # <<>>
        /\ reqs[i].srv = "closed"

----------------------------------------------------------------------------
(* Properties of the chat page *)

\* This step is an attempt to submit the form
SubmitAttempted == lastAttempt'.kind # "none"

\* This step changes nothing of the conversation, the requests or the form
NothingMutated ==
    /\ messages' = messages
    /\ reqs' = reqs
    /\ isLoading' = isLoading
    /\ input' = input

Streaming == {i \in PageRequests : reqs[i].turn = "streaming"}

\* C9: in every reachable state at most one turn is streaming.
C9_OneStreaming == Cardinality(Streaming) <= 1

\* C9 witness: the second turn is streaming after the first one ended
C9_Witness ==
    /\ Cardinality(PageRequests) = 2
    /\ reqs[1].turn \in {"complete", "errored"}
    /\ reqs[2].turn = "streaming"

\* The status of every turn that exists before the step either stays or
\* moves by one of the given transitions
TurnsMoveBy(allowed) ==
    \A i \in PageRequests :
        \/ reqs'[i].turn = reqs[i].turn
        \/ <<reqs[i].turn, reqs'[i].turn>> \in allowed

\* C10 as stated: a turn's status only moves pending -> streaming ->
\* complete or errored, never skipping a state and never going back.
C10_NoSkip ==
    [][TurnsMoveBy({<<"pending", "streaming">>, <<"streaming", "complete">>,
                    <<"streaming", "errored">>})]_vars

\* C10 amended: a turn's status only moves pending -> streaming -> complete
\* or errored, or pending -> errored when the request fails before the
\* response stream opens; it never goes back, and complete and errored are
\* final.
C10_Lifecycle ==
    [][TurnsMoveBy({<<"pending", "streaming">>, <<"streaming", "complete">>,
                    <<"streaming", "errored">>, <<"pending", "errored">>})]_vars

\* C10 witness: one turn failed on a 500 answer without ever streaming, and
\* a later one streamed and completed
C10_Witness ==
    \E i, j \in PageRequests :
        /\ reqs[i].turn = "errored" /\ reqs[i].resp.status = 500
        /\ reqs[j].turn = "complete" /\ reqs[j].chunks # <<>>

----------------------------------------------------------------------------
(* Properties of the conversation *)

\* C11: the content of the assistant turn of every request is the
\* concatenation, in order of arrival, of the chunks delivered for that
\* request: none lost, duplicated, reordered or applied to another turn.
C11_ContentIsChunks ==
    \A i \in PageRequests :
        IF reqs[i].chunks = <<>>
        THEN reqs[i].msg = 0
        ELSE /\ reqs[i].msg \in DOMAIN messages
             /\ messages[reqs[i].msg].role = "assistant"
             /\ messages[reqs[i].msg].content = reqs[i].chunks
             /\ \A j \in PageRequests : j # i => reqs[j].msg # reqs[i].msg

\* C11 witness: a stream delivered two chunks to one turn and ended
C11_Witness ==
    \E i \in PageRequests :
        /\ Len(reqs[i].chunks) = 2
        /\ reqs[i].turn = "complete"

UserPosition(i) == Len(reqs[i].body.messages.v)

C13_ErrorKeepsContent ==
    [][\A i \in PageRequests :
          (reqs[i].turn = "streaming" /\ reqs'[i].srv = "broken") =>
              /\ reqs'[i].turn = "errored"
              /\ messages' = messages
              /\ lastAttempt'.raised = "none"]_vars

\* C13 witness: a turn is errored after its stream broke with one chunk
\* received, and its content is that chunk
C13_Witness ==
    \E i \in PageRequests :
        /\ reqs[i].turn = "errored"
        /\ reqs[i].srv = "broken"
        /\ Len(reqs[i].chunks) = 1
        /\ messages[reqs[i].msg].content = reqs[i].chunks

\* C15: every accepted submit eventually brings its turn to complete or
\* errored, so isLoading never stays true forever.
C15_EventuallyTerminal == isLoading ~> ~isLoading

\* The number of messages the turn of request i added to the conversation
TurnSize(i) == IF reqs[i].chunks = <<>> THEN 1 ELSE 2

AllTerminal == \A i \in PageRequests : reqs[i].turn \in {"complete", "errored"}

\* C17: once the turns are all complete or errored isLoading is false, and
\* a submit with non-blank text (the mode is a catalog key) is accepted: it
\* sends a request and raises isLoading.
C17_ResubmitAfterTerminal ==
    [][/\ AllTerminal => ~isLoading
       /\ AllTerminal' => ~isLoading'
       /\ (AllTerminal /\ Trim(input) # <<>> /\ SubmitAttempted) =>
              /\ lastAttempt'.kind = "accepted"
              /\ Len(reqs') = Len(reqs) + 1
              /\ isLoading']_vars

\* C17 witness: a second submit was accepted after the first turn completed
C17_Witness ==
    /\ lastAttempt.kind = "accepted"
    /\ Len(reqs) = 2
    /\ reqs[1].turn = "complete"
    /\ reqs[2].turn = "pending"

\* The transcript a submit must send: every message of the conversation in
\* order, then the new user message, each as {role, content}
ExpectedTranscript ==
    [k \in 1..(Len(messages) + 1) |->
        IF k <= Len(messages)
        THEN [role |-> messages[k].role, content |-> messages[k].content]
        ELSE [role |-> "user", content |-> input]]

\* C18: the request of a turn carries the whole conversation up to and
\* including the new user turn, in order, as {role, content}, and the mode
\* selected at submission (no assistant turn for the new request); the
\* route resolves the mode to MODELS[mode] and passes the transcript on.
C18_RequestCarriesTranscript ==
    [][/\ Len(reqs') > Len(reqs) =>
              reqs'[Len(reqs')].body =
                  [kind |-> "object", messages |-> Arr(ExpectedTranscript),
                   mode |-> Str(selectedModel)]
       /\ \A i \in PageRequests :
              (reqs[i].resp.status = 0 /\ reqs'[i].resp.status # 0) =>
                  reqs'[i].resp.calls =
                      <<[model |-> [provider |-> "groq",
                                    modelId |-> Str(MODELS[reqs[i].body.mode.v])],
                         messages |-> reqs[i].body.messages]>>]_vars

\* C18 witness: the second request, sent with mode compound after a complete
\* first turn, carries three messages and was passed to streamText
C18_Witness ==
    /\ Len(reqs) = 2
    /\ reqs[1].turn = "complete"
    /\ Len(reqs[2].body.messages.v) = 3
    /\ reqs[2].body.messages.v[2].role = "assistant"
    /\ reqs[2].body.mode = Str("compound")
    /\ reqs[2].resp.calls # <<>>

\* C19: the conversation never gets shorter and every turn keeps its
\* position (no turn is removed, deduplicated or reordered).
C19_AppendOnly ==
    [][/\ Len(messages') >= Len(messages)
       /\ \A k \in DOMAIN messages :
              /\ messages'[k].id = messages[k].id
              /\ messages'[k].role = messages[k].role]_vars

\* C19 witness: the conversation holds four turns in the order of creation
C19_Witness ==
    /\ Len(messages) = 4
    /\ \A k \in 1..4 : messages[k].id = k
    /\ reqs[1].srv = "broken"

IsPrefix(a, b) == Len(a) <= Len(b) /\ SubSeq(b, 1, Len(a)) = a

\* C20: the content of a user or system turn never changes, and the content
\* of an assistant turn only grows at its end.
C20_ContentMonotone ==
    [][\A k \in DOMAIN messages :
          /\ k \in DOMAIN messages'
          /\ IF messages[k].role = "assistant"
             THEN IsPrefix(messages[k].content, messages'[k].content)
             ELSE messages'[k].content = messages[k].content]_vars

\* C20 witness: an assistant turn grew to two chunks after a user turn
C20_Witness ==
    /\ Len(messages) = 2
    /\ messages[1].role = "user"
    /\ messages[1].content = <<" ", "a">>
    /\ messages[2].content = <<"1", "2">>

----------------------------------------------------------------------------
(* Properties of validation and of the selector *)

\* The roles of lib/types.ts
ClosedRoles == {"user", "assistant", "system"}

\* Every element of a messages array has a role of the closed set
RolesClosed(m) == \A k \in DOMAIN m.v : m.v[k].role \in ClosedRoles

\* C22: every turn stored in the conversation or passed to streamText has a
\* role of {user, assistant, system}; an answered POST whose messages array
\* holds any other role was rejected and never reached streamText.
C22_RolesClosed ==
    /\ \A k \in DOMAIN messages : messages[k].role \in ClosedRoles
    /\ \A i \in DOMAIN reqs :
          (Handled(i) /\ ArrayMessages(i) /\ ~RolesClosed(reqs[i].body.messages)) =>
              /\ reqs[i].resp.calls = <<>>
              /\ reqs[i].resp.status # 200

\* C24: while a request is in progress the selected mode does not change,
\* so every turn that is pending or streaming was sent with the mode that is
\* still selected.
C24_ModeFrozenWhileLoading ==
    [][/\ isLoading => (SelectDisabled /\ selectedModel' = selectedModel)
       /\ \A i \in PageRequests :
              reqs[i].turn \in {"pending", "streaming"} =>
                  /\ isLoading
                  /\ reqs[i].body.mode = Str(selectedModel)]_vars

\* C24 witness: the second turn, sent with a mode the user chose, is
\* streaming
C24_Witness ==
    /\ isLoading
    /\ selects > 0
    /\ Len(reqs) = 2
    /\ reqs[2].turn = "streaming"
    /\ reqs[2].chunks # <<>>
    /\ reqs[2].body.mode = Str(selectedModel)
    /\ selectedModel = "fast"

\* C25: the response of an answered request never changes afterwards; a
\* request whose data-stream response was returned keeps status 200 with no
\* error caught, whatever the stream does later, and a 400 or 500 answer
\* belongs to a request that never streamed.
C25_NoErrorStatusAfterStream ==
    [][\A i \in DOMAIN reqs :
          /\ Handled(i) => reqs'[i].resp = reqs[i].resp
          /\ reqs'[i].srv \in {"streaming", "done", "broken"} =>
                 (reqs'[i].resp.status = 200 /\ reqs'[i].resp.thrown = "none")
          /\ reqs'[i].resp.status \in {400, 500} =>
                 (reqs'[i].srv = "closed" /\ reqs'[i].chunks = <<>>)]_vars

\* C25 witness: the stream of a client's request broke after a chunk, and
\* its response is still the 200 one
C25_Witness ==
    \E i \in ClientRequests :
        /\ reqs[i].srv = "broken"
        /\ reqs[i].chunks # <<>>
        /\ reqs[i].resp.status = 200

\* C26: selectedModel is always a key of MODELS (one of the six), and every
\* request the page sent carries a catalog key as mode.
C26_SelectedIsCatalogKey ==
    /\ selectedModel \in ObjectKeys(MODELS)
    /\ selectedModel \in SixKeys
    /\ \A i \in PageRequests : CatalogMode(i)

\* C26 witness: the user chose another option and a request was sent with it
C26_Witness ==
    /\ selects > 0
    /\ selectedModel = "safety"
    /\ \E i \in PageRequests : reqs[i].body.mode = Str("safety")

\* C27: MODELS[key] is a non-empty string for each of the six keys, and no
\* answered POST with an array messages and one of the six keys as mode got
\* "Valid mode is required" or any 400.
C27_CatalogKeysPass ==
    /\ \A k \in SixKeys :
          /\ GetProperty(MODELS, k).t = "string"
          /\ GetProperty(MODELS, k).v # ""
          /\ ~ModeInvalid(MODELS, Str(k))
    /\ \A i \in DOMAIN reqs :
          (Handled(i) /\ ArrayMessages(i) /\ CatalogMode(i)) =>
              /\ reqs[i].resp.status # 400
              /\ reqs[i].resp.text # "Valid mode is required"
              /\ reqs[i].resp.calls # <<>>

\* C27 witness: a POST with the mode compound and one message was passed on
\* to streamText and answered with the stream
C27_Witness ==
    \E i \in DOMAIN reqs :
        /\ reqs[i].body.mode = Str("compound")
        /\ reqs[i].body.messages = Arr(<<UserMsg>>)
        /\ reqs[i].resp.status = 200

\* C28: an answered POST whose messages is not an array and whose mode is
\* no catalog key got status 400 "Messages array is required".
C28_MessagesCheckedFirst ==
    \A i \in DOMAIN reqs :
        (/\ Handled(i)
         /\ reqs[i].body.kind = "object"
         /\ ~IsArray(reqs[i].body.messages)
         /\ ~CatalogMode(i)) =>
            /\ reqs[i].resp.status = 400
            /\ reqs[i].resp.text = "Messages array is required"

\* C28 witness: a POST with messages "hi" and mode "bogus" has been answered
C28_Witness ==
    \E i \in DOMAIN reqs :
        /\ Handled(i)
        /\ reqs[i].body.messages = Str("hi")
        /\ reqs[i].body.mode = Str("bogus")

\* C29: a 400 answer comes only from the two validation checks of a JSON
\* object body; a body that is not JSON, or is the JSON value null, got
\* status 500 "Internal server error" without an invocation of streamText.
C29_BadBodyIs500 ==
    \A i \in DOMAIN reqs :
        /\ (Handled(i) /\ reqs[i].body.kind \in {"invalid", "null"}) =>
              /\ reqs[i].resp.status = 500
              /\ reqs[i].resp.text = "Internal server error"
              /\ reqs[i].resp.calls = <<>>
        /\ reqs[i].resp.status = 400 =>
              /\ reqs[i].body.kind = "object"
              /\ \/ /\ reqs[i].resp.text = "Messages array is required"
                    /\ MessagesInvalid(reqs[i].body.messages)
                 \/ /\ reqs[i].resp.text = "Valid mode is required"
                    /\ ModeInvalid(MODELS, reqs[i].body.mode)

\* C29 witness: a body that is the JSON value null has been answered
C29_Witness ==
    \E i \in DOMAIN reqs : Handled(i) /\ reqs[i].body.kind = "null"

\* The messages array of request i is empty or does not end with a user
\* message of non-empty content
NoUserMessageLast(i) ==
    LET m == reqs[i].body.messages.v
    IN  \/ m = <<>>
        \/ m[Len(m)].role # "user"
        \/ m[Len(m)].content = <<>>

\* C30: an answered POST with a catalog mode and a messages array that is
\* empty, or does not end with a non-empty user message, passed validation
\* and was handed to streamText exactly as received.
C30_OnlyArrayAndModeChecked ==
    \A i \in DOMAIN reqs :
        (Handled(i) /\ ArrayMessages(i) /\ CatalogMode(i) /\ NoUserMessageLast(i)) =>
            /\ reqs[i].resp.status # 400
            /\ Len(reqs[i].resp.calls) = 1
            /\ reqs[i].resp.calls[1].messages = reqs[i].body.messages

\* C30 witness: a POST with an empty messages array and the mode fast was
\* answered with the stream
C30_Witness ==
    \E i \in DOMAIN reqs :
        /\ reqs[i].body.messages = Arr(<<>>)
        /\ reqs[i].body.mode = Str("fast")
        /\ reqs[i].resp.status = 200
        /\ reqs[i].resp.calls[1].messages = Arr(<<>>)

====
